---------------------------- MODULE Spec2Model ----------------------------
(***************************************************************************)
(* Model of the leaderboard ingestion engine of Scripts/Scrape/Main.py:    *)
(* the sequential page-fetch loop (run), the rank bucketing               *)
(* (rank_bucket_bounds), the write-back bucket store (BucketManager), the  *)
(* checkpoint file last.json and atomic_write.                             *)
(*                                                                         *)
(* Seven specifications share the definitions:                             *)
(*   Spec          the crawl: processes started, signalled, killed, ended  *)
(*                 by an exception and restarted over the files on disk,   *)
(*                 against a leaderboard chosen from Boards;               *)
(*   SpecStop      the crawl of processes that run on, under weak fairness *)
(*                 of the steps of the loop;                               *)
(*   SpecStore     a driver of BucketManager.update_entry alone, applying  *)
(*                 arbitrary (uid, record, page) calls from bounded sets;  *)
(*   SpecProgress  the progress report of lines 188-199 on stores of given *)
(*                 sizes and totals.                                       *)
(*   SpecRerun     the crawl started on the bucket files an earlier run    *)
(*                 left, with a checkpoint that is absent or behind;       *)
(*   SpecIds       the loop body applied to records with every             *)
(*                 combination of identifier attributes;                   *)
(*   SpecFinite    the crawl of a finite leaderboard with no signal and no *)
(*                 kill, under fairness of the loop and of the fetch.      *)
(***************************************************************************)
EXTENDS Integers, Sequences, FiniteSets, TLC

(***************************************************************************)
(* JSON values, tagged by type so that values of different types compare.  *)
(***************************************************************************)
JInt(n) == [t |-> "int", n |-> n]
JStr(s) == [t |-> "str", s |-> s]
JNull == [t |-> "null"]
JArr(a) == [t |-> "arr", a |-> a]

\* A Python dict is a function from its keys; {} is the function of no key.
EmptyDict == [k \in {} |-> 0]

DictGet(d, k, default) == IF k \in DOMAIN d THEN d[k] ELSE default

DictSet(d, k, v) == (k :> v) @@ d

DictPop(d, k) == [x \in (DOMAIN d) \ {k} |-> d[x]]

(***************************************************************************)
(* Files.  A file is absent, holds bytes that do not parse as JSON (a      *)
(* truncated or partly written file), or holds the serialization of a      *)
(* value.                                                                  *)
(***************************************************************************)
Absent == [f |-> "absent"]
Garbage == [f |-> "garbage"]

\* json.dump(obj, f, ...) followed by the newline: the complete serialization.
JsonDump(obj) == [f |-> "json", v |-> obj]

load_json_if_exists(content, default) ==
    IF content = Absent THEN default
    ELSE IF content.f = "json" THEN content.v
    ELSE default

(***************************************************************************)
(* Program constants.                                                      *)
(***************************************************************************)
BUCKET_SIZE == 1000

IdKeys == <<"id", "profile_id", "user_id", "player_id", "profileId", "playerId", "id_str">>

\* str(v) of a JSON scalar.
PyStr(v) ==
    CASE v.t = "int" -> ToString(v.n)
      [] v.t = "str" -> v.s
      [] OTHER -> ToString(v)

\* json.dumps(entry, sort_keys=True): one string per attribute map.
JsonDumpsSorted(entry) == ToString(entry)

normalize_id_first(entry) ==
    IF IdKeys[1] \in DOMAIN entry THEN PyStr(entry[IdKeys[1]]) ELSE JsonDumpsSorted(entry)

RECURSIVE NormalizeFrom(_, _)
NormalizeFrom(entry, i) ==
    IF i > Len(IdKeys) THEN JsonDumpsSorted(entry)
    ELSE IF IdKeys[i] \in DOMAIN entry /\ entry[IdKeys[i]] # JNull
         THEN PyStr(entry[IdKeys[i]])
         ELSE NormalizeFrom(entry, i + 1)

normalize_id(entry) == NormalizeFrom(entry, 1)

\* The decimal strings int() parses, among those the inputs use.
DecimalStrings == ("5" :> 5) @@ ("1500" :> 1500)

ParseRankBadAsOne(latest_obj) ==
    LET v == DictGet(latest_obj, "rank", JInt(0)) IN
    CASE v.t = "int" -> v.n
      [] v.t = "str" -> IF v.s \in DOMAIN DecimalStrings THEN DecimalStrings[v.s] ELSE 1
      [] OTHER -> 0

ParseRankDefaultOne(latest_obj) ==
    LET v == DictGet(latest_obj, "rank", JInt(1)) IN
    CASE v.t = "int" -> v.n
      [] v.t = "str" -> IF v.s \in DOMAIN DecimalStrings THEN DecimalStrings[v.s] ELSE 0
      [] OTHER -> 0

\* int(latest_obj.get("rank", 0) or 0) under try/except: 0 on any failure.
ParseRank(latest_obj) ==
    LET v == DictGet(latest_obj, "rank", JInt(0)) IN
    CASE v.t = "int" -> v.n
      [] v.t = "str" -> IF v.s \in DOMAIN DecimalStrings THEN DecimalStrings[v.s] ELSE 0
      [] OTHER -> 0

rank_bucket_bounds_off(rank) ==
    IF rank <= 0 THEN <<0, 0>>
    ELSE LET start == (rank \div BUCKET_SIZE) * BUCKET_SIZE + 1
         IN  <<start, start + BUCKET_SIZE - 1>>

rank_bucket_bounds(rank) ==
    IF rank <= 0 THEN <<0, 0>>
    ELSE LET start == ((rank - 1) \div BUCKET_SIZE) * BUCKET_SIZE + 1
         IN  <<start, start + BUCKET_SIZE - 1>>

(***************************************************************************)
(* BucketManager.  bm = [cache, dirty, order]: _cache and _dirty, and the  *)
(* insertion order of their keys (the order list(...keys()) iterates in).  *)
(* files maps a bucket key to the content of its data.json.                *)
(***************************************************************************)
EmptyBM == [cache |-> EmptyDict, dirty |-> EmptyDict, order |-> <<>>]

BucketFile(files, key) == IF key \in DOMAIN files THEN files[key] ELSE Absent

_load_bucket_empty(bm, files, key) ==
    IF key \in DOMAIN bm.cache THEN bm
    ELSE [cache |-> DictSet(bm.cache, key, EmptyDict),
          dirty |-> DictSet(bm.dirty, key, FALSE),
          order |-> Append(bm.order, key)]

_load_bucket(bm, files, key) ==
    IF key \in DOMAIN bm.cache THEN bm
    ELSE [cache |-> DictSet(bm.cache, key, load_json_if_exists(BucketFile(files, key), EmptyDict)),
          dirty |-> DictSet(bm.dirty, key, FALSE),
          order |-> Append(bm.order, key)]

InSeq(x, s) == \E i \in 1..Len(s) : s[i] = x

MergePagesAlways(pages, page) == Append(pages, page)

MergePagesFront(pages, page) == IF InSeq(page, pages) THEN pages ELSE <<page>> \o pages

MergePages(pages, page) == IF InSeq(page, pages) THEN pages ELSE Append(pages, page)

update_entry_replacing(bm, files, uid, latest_obj, page) ==
    LET key == rank_bucket_bounds(ParseRank(latest_obj))
        b1 == _load_bucket(bm, files, key)
        existing == DictGet(b1.cache[key], uid, EmptyDict)
        pages == MergePages(DictGet(existing, "pages", <<>>), page)
    IN  [cache |-> DictSet(b1.cache, key, (uid :> [latest |-> latest_obj, pages |-> pages])),
         dirty |-> DictSet(b1.dirty, key, TRUE),
         order |-> b1.order]

update_entry_clean(bm, files, uid, latest_obj, page) ==
    LET key == rank_bucket_bounds(ParseRank(latest_obj))
        b1 == _load_bucket(bm, files, key)
        bucket == b1.cache[key]
        existing == DictGet(bucket, uid, EmptyDict)
        pages == MergePages(DictGet(existing, "pages", <<>>), page)
    IN  [cache |-> DictSet(b1.cache, key,
                      DictSet(bucket, uid, [latest |-> latest_obj, pages |-> pages])),
         dirty |-> b1.dirty,
         order |-> b1.order]

update_entry_dirtying(bm, files, uid, latest_obj, page) ==
    LET key == rank_bucket_bounds(ParseRank(latest_obj))
        b1 == _load_bucket(bm, files, key)
        bucket == b1.cache[key]
        existing == DictGet(bucket, uid, EmptyDict)
        pages == MergePages(DictGet(existing, "pages", <<>>), page)
    IN  [cache |-> DictSet(b1.cache, key,
                      DictSet(bucket, uid, [latest |-> latest_obj, pages |-> pages])),
         dirty |-> [k \in DOMAIN b1.dirty |-> TRUE],
         order |-> b1.order]

update_entry_moving(bm, files, uid, latest_obj, page) ==
    LET key == rank_bucket_bounds(ParseRank(latest_obj))
        b1 == _load_bucket(bm, files, key)
        bucket == b1.cache[key]
        existing == DictGet(bucket, uid, EmptyDict)
        pages == MergePages(DictGet(existing, "pages", <<>>), page)
        others == [k \in DOMAIN b1.cache |-> DictPop(b1.cache[k], uid)]
    IN  [cache |-> DictSet(others, key,
                      DictSet(bucket, uid, [latest |-> latest_obj, pages |-> pages])),
         dirty |-> DictSet(b1.dirty, key, TRUE),
         order |-> b1.order]

update_entry(bm, files, uid, latest_obj, page) ==
    LET key == rank_bucket_bounds(ParseRank(latest_obj))
        b1 == _load_bucket(bm, files, key)
        bucket == b1.cache[key]
        existing == DictGet(bucket, uid, EmptyDict)
        pages == MergePages(DictGet(existing, "pages", <<>>), page)
    IN  [cache |-> DictSet(b1.cache, key,
                      DictSet(bucket, uid, [latest |-> latest_obj, pages |-> pages])),
         dirty |-> DictSet(b1.dirty, key, TRUE),
         order |-> b1.order]


(***************************************************************************)
(* The remote API.  A successful response body is a JSON object (with or   *)
(* without "data" and "total"), a bare array, or another JSON value; a     *)
(* body that is not JSON makes fetch_page return {}.                       *)
(***************************************************************************)
RespDict(d) == [k |-> "dict", d |-> d]
RespList(a) == [k |-> "list", a |-> a]
RespOther == [k |-> "other"]

\* fetch_page's value for a 2xx response whose body is not JSON.
NonJsonBody == RespDict(EmptyDict)

\* bool(v) of a JSON value.
Truthy(v) ==
    CASE v.t = "null" -> FALSE
      [] v.t = "int" -> v.n # 0
      [] v.t = "str" -> v.s # ""
      [] v.t = "arr" -> v.a # <<>>

\* Whether data_array of lines 162-169 is a list.  With "data" a true value
\* that is not an array (a string, a number), resp.get("data") or [] is that
\* value and the loop of line 178 raises on it: TypeError for a number,
\* ValueError from dict(ent) for the first character of a string.
DataIsList(resp) ==
    ~(resp.k = "dict" /\ "data" \in DOMAIN resp.d
        /\ resp.d["data"].t # "arr" /\ Truthy(resp.d["data"]))

\* data_array of lines 162-169 when it is a list: resp.get("data") or [].
DataArray(resp) ==
    IF resp.k = "dict" /\ "data" \in DOMAIN resp.d
    THEN (IF resp.d["data"].t = "arr" THEN resp.d["data"].a ELSE <<>>)
    ELSE IF resp.k = "list" THEN resp.a
    ELSE <<>>

TotalExpected(resp, current) ==
    IF resp.k = "dict" /\ "data" \in DOMAIN resp.d
    THEN DictGet(resp.d, "total", current)
    ELSE current

(***************************************************************************)
(* The progress line of lines 188-199.  A percentage is printed with six   *)
(* decimals ("{pct:.6f}"): whole is its integer part and frac its decimals *)
(* as a number in 0..999999, the quotient rounded to the nearest, a tie to *)
(* the even digit.                                                         *)
(***************************************************************************)
NoReport == [kind |-> "none"]

CollectedBuckets(cache) == Cardinality(DOMAIN cache)

\* collected: the sum of len(b) over the buckets of the cache.
RECURSIVE SumLen(_, _)
SumLen(cache, keys) ==
    IF keys = {} THEN 0
    ELSE LET k == CHOOSE x \in keys : TRUE
         IN  Cardinality(DOMAIN cache[k]) + SumLen(cache, keys \ {k})

Collected(cache) == SumLen(cache, DOMAIN cache)

\* n decimals of rem / den, as <<digits, remainder>>.
RECURSIVE Decimals(_, _, _)
Decimals(rem, den, n) ==
    IF n = 0 THEN <<0, rem>>
    ELSE LET d == Decimals(rem, den, n - 1)
         IN  <<d[1] * 10 + (d[2] * 10) \div den, (d[2] * 10) % den>>

\* "{:.6f}" of num / den, for num >= 0 and den > 0.
Format6(num, den) ==
    LET d == Decimals(num % den, den, 6)
        up == 2 * d[2] > den \/ (2 * d[2] = den /\ d[1] % 2 = 1)
        frac == IF up THEN d[1] + 1 ELSE d[1]
    IN  IF frac = 1000000 THEN [whole |-> num \div den + 1, frac |-> 0]
        ELSE [whole |-> num \div den, frac |-> frac]

\* Lines 188-199; int(total_expected) raises on a value that is no number,
\* and the percentage is then 0.0.
Progress(cache, total, p) ==
    LET collected == Collected(cache) IN
    IF Truthy(total)
    THEN LET pct == IF total.t = "int" THEN Format6(collected * 100, total.n)
                    ELSE [whole |-> 0, frac |-> 0]
         IN  [kind |-> "pct", whole |-> pct.whole, frac |-> pct.frac, page |-> p,
              collected |-> collected, total |-> total]
    ELSE [kind |-> "count", page |-> p, collected |-> collected]

\* latest = dict(ent) with "history" popped.
StripHistory(ent) == IF "history" \in DOMAIN ent THEN DictPop(ent, "history") ELSE ent

(***************************************************************************)
(* Inputs: records and leaderboards.                                       *)
(***************************************************************************)
RecA1 == [id |-> JInt(101), rank |-> JInt(5), score |-> JInt(10)]
RecA2 == [id |-> JInt(101), rank |-> JInt(5), score |-> JInt(20)]
RecAMoved == [id |-> JInt(101), rank |-> JInt(1500), score |-> JInt(20)]
RecB == [id |-> JInt(202), rank |-> JInt(1500), score |-> JInt(10)]
RecC == [id |-> JInt(303), score |-> JInt(10)]
RecNoId == [name |-> JStr("n"), rank |-> JStr("5"), history |-> JArr(<<JInt(1)>>)]
RecNullRank == [id |-> JNull, profile_id |-> JStr("p7"), rank |-> JNull]
RecBadRank == [id |-> JInt(404), rank |-> JStr("abc")]

\* The end-to-end leaderboard: ranks 5 and 1500, then 5 again (changed) and a
\* record with no rank; page 3 is the first empty page.
BoardE2E ==
    << RespDict([data |-> JArr(<<RecA1, RecB>>), total |-> JInt(3)]),
       RespDict([data |-> JArr(<<RecA2, RecC>>), total |-> JInt(3)]) >>

\* Bare arrays; the record changes rank bucket between its two observations.
BoardMoved == << RespList(<<RecA1>>), RespList(<<RecAMoved>>), RespList(<<RecB>>) >>

\* Anomalous records, then a response of an unsupported shape.
BoardOdd ==
    << RespDict([data |-> JArr(<<RecNoId, RecNullRank, RecBadRank>>)]), RespOther >>

BoardEmpty == << >>

Boards == {BoardE2E, BoardMoved, BoardOdd, BoardEmpty}

\* Responses of other shapes, which the API may give to any request: a body
\* that is not JSON, an object whose data is null, an object without data,
\* and an object whose data is a string.
OddResponses ==
    { NonJsonBody,
      RespDict([data |-> JNull]),
      RespDict([total |-> JInt(3)]),
      RespDict([data |-> JStr("error")]) }

\* Past the last page the API answers with an empty data array.
BoardPage(b, p) ==
    IF p \in 1..Len(b) THEN b[p] ELSE RespDict([data |-> JArr(<<>>)])

\* Bounds of the inputs, and the cap of the counter afterStop.
MaxStartPage == 2
MaxCalls == 2
MaxPage == 2
MaxAfterStop == 2

VARIABLES
    board,          \* the leaderboard the API serves
    lastFile,       \* content of last.json
    bucketFiles,    \* bucket key -> content of <start>to<end>/data.json
    tmp,            \* content of the .tmp file of the write in progress
    pc,             \* position of the process in run()
    page,           \* run: page
    last,           \* run: last (the in-memory checkpoint dict)
    total_expected, \* run: total_expected
    _cache,         \* BucketManager._cache
    _dirty,         \* BucketManager._dirty
    order,          \* insertion order of the keys of _cache and _dirty
    _stop,          \* _stop
    lastSaveSet,    \* _last_save # 0
    data_array,     \* run: data_array
    idx,            \* index of the next element of data_array to apply
    ki,             \* index in order of the bucket being written by a flush
    aw,             \* step of atomic_write in progress
    returned,       \* history: <<uid, bucket key, page>> of every record returned
    fresh,          \* history: first process, on an empty store, never crashed
    startFile,      \* history: last.json as the running process found it
    firstFetch,     \* history: first page this process fetched (0: none yet)
    lastFetch,      \* history: page of the last fetch this process issued
    retryOf,        \* history: page whose fetch raised last (0: last fetch returned)
    applied,        \* history: <<uid, bucket key, page>> applied by this process
    call,           \* history: the last update_entry or flush call
    calls,          \* number of calls the store driver made
    ioError,        \* history: the step of atomic_write that failed in this process
    report,         \* the last progress line the process printed
    afterStop,      \* history: fetches this process issued with the flag set
    startBuckets    \* history: the bucket files as the running process found them

disk == <<lastFile, bucketFiles, tmp>>
proc == <<pc, page, last, total_expected, _stop, lastSaveSet, data_array, idx, ki, aw>>
store == <<_cache, _dirty, order>>
hist == <<returned, fresh, startFile, firstFetch, lastFetch, retryOf, applied, call, calls,
         ioError, report, afterStop, startBuckets>>
vars == <<board, disk, proc, store, hist>>

BM == [cache |-> _cache, dirty |-> _dirty, order |-> order]

SetBM(bm) == /\ _cache' = bm.cache
             /\ _dirty' = bm.dirty
             /\ order' = bm.order

NoCall == [op |-> "none"]

\* A call of save_dirty or force_save_all, with the store and the bucket
\* files it found.
FlushCall(op) == [op |-> op, before |-> BM, files |-> bucketFiles]

UpdateCall(uid, latest_obj, p) ==
    [op |-> "update_entry", uid |-> uid, latest |-> latest_obj, page |-> p,
     rank |-> ParseRank(latest_obj),
     key |-> rank_bucket_bounds(ParseRank(latest_obj)),
     before |-> BM]

\* The checkpoint files a process may find: none, unparsable, or an object
\* holding an integer page, with or without the completion mark.
StartFiles ==
    {Absent, Garbage}
    \cup {JsonDump([page |-> n]) : n \in {-1, 0, 7} \cup 1..MaxStartPage}
    \cup {JsonDump([page |-> n, complete |-> TRUE]) : n \in 1..MaxStartPage}

\* Memory of a process that is not running.
NoProcess ==
    /\ page = 0 /\ last = EmptyDict /\ total_expected = JNull
    /\ _cache = EmptyDict /\ _dirty = EmptyDict /\ order = <<>>
    /\ _stop = FALSE /\ lastSaveSet = FALSE
    /\ data_array = <<>> /\ idx = 0 /\ ki = 0 /\ aw = "idle"

Init ==
    /\ board \in Boards
    /\ lastFile \in StartFiles
    /\ bucketFiles = EmptyDict
    /\ tmp = Absent
    /\ pc = "off"
    /\ NoProcess
    /\ returned = {}
    /\ fresh = TRUE
    /\ startFile = Absent
    /\ firstFetch = 0 /\ lastFetch = 0 /\ retryOf = 0
    /\ applied = {}
    /\ call = NoCall
    /\ calls = 0
    /\ ioError = "none"
    /\ report = NoReport
    /\ afterStop = 0
    /\ startBuckets = EmptyDict

(***************************************************************************)
(* atomic_write(path, obj), lines 28-41, in four steps: open the .tmp file *)
(* for writing (it exists, truncated), dump and flush the serialization,   *)
(* fsync, os.replace.  The pc says which call of run() is in progress, and *)
(* with ki which path and object it writes.                                *)
(***************************************************************************)
CheckpointWrites == {"stop_ckpt", "done_ckpt", "adv_ckpt", "timed_ckpt"}
Flushes == {"stop_flush", "done_flush", "timed_flush"}
Ended == {"stopped", "complete"}
Dead == {"off", "failed"}
Running == {"top", "request", "fetching", "apply", "advance"} \cup CheckpointWrites \cup Flushes

\* The object the write in progress serializes.
WriteObject == IF pc \in CheckpointWrites THEN last ELSE DictGet(_cache, order[ki], EmptyDict)

WritesTimedOnly(loop, i) == loop = "timed_flush" /\ _dirty[order[i]]

WritesAll(loop, i) == TRUE

WritesDirtyOnly(loop, i) == _dirty[order[i]]

\* Whether the loop of save_dirty / force_save_all writes the bucket at index i.
Writes(loop, i) == loop # "timed_flush" \/ _dirty[order[i]]

\* From index i on, the first index the loop writes; Len(order) + 1 when none.
RECURSIVE NextWrite(_, _)
NextWrite(loop, i) ==
    IF i > Len(order) THEN i
    ELSE IF Writes(loop, i) THEN i
    ELSE NextWrite(loop, i + 1)

\* Where run() goes on when the loop of a flush is over.
AfterFlush(loop) ==
    CASE loop = "stop_flush" -> "stopped"
      [] loop = "done_flush" -> "complete"
      [] loop = "timed_flush" -> "timed_ckpt"

\* Enter, or go on with, a flush loop at index i, given the dirty flags d.
FlushFrom(loop, i, d) ==
    LET j == NextWrite(loop, i) IN
    /\ _dirty' = d
    /\ IF j > Len(order)
       THEN /\ pc' = AfterFlush(loop)
            /\ ki' = 0
            /\ aw' = IF AfterFlush(loop) \in CheckpointWrites THEN "start" ELSE "idle"
       ELSE /\ pc' = loop
            /\ ki' = j
            /\ aw' = "start"

AwOpen ==
    /\ pc \in CheckpointWrites \cup Flushes
    /\ aw = "start"
    /\ tmp' = Garbage
    /\ aw' = "open"
    /\ UNCHANGED <<board, lastFile, bucketFiles, pc, page, last, total_expected, _stop,
                   lastSaveSet, data_array, idx, ki, store, hist>>

AwDump ==
    /\ pc \in CheckpointWrites \cup Flushes
    /\ aw = "open"
    /\ tmp' = JsonDump(WriteObject)
    /\ aw' = "dumped"
    /\ UNCHANGED <<board, lastFile, bucketFiles, pc, page, last, total_expected, _stop,
                   lastSaveSet, data_array, idx, ki, store, hist>>

AwSync ==
    /\ pc \in CheckpointWrites \cup Flushes
    /\ aw = "dumped"
    /\ aw' = "synced"
    /\ UNCHANGED <<board, disk, pc, page, last, total_expected, _stop,
                   lastSaveSet, data_array, idx, ki, store, hist>>

\* os.fsync raises: lines 37-40 catch the exception and the write goes on.
AwSyncFail ==
    /\ pc \in CheckpointWrites \cup Flushes
    /\ aw = "dumped"
    /\ aw' = "synced"
    /\ ioError' = "fsync"
    /\ UNCHANGED <<board, disk, pc, page, last, total_expected, _stop,
                   lastSaveSet, data_array, idx, ki, store, returned, fresh, startFile,
                   firstFetch, lastFetch, retryOf, applied, call, calls, report, afterStop,
                   startBuckets>>

\* The steps of atomic_write whose exception nothing catches, and the
\* position of the write at which each runs.
IoSteps == {"makedirs", "open", "write", "replace"}

FailsAt(step) ==
    CASE step \in {"makedirs", "open"} -> "start"
      [] step = "write" -> "open"
      [] step = "replace" -> "synced"

\* os.makedirs, open, json.dump / write / flush or os.replace raises: the
\* exception leaves atomic_write, the flush and run(), and lines 215-219 end
\* the process.  The destination file is as it was.
AwFail(step) ==
    /\ pc \in CheckpointWrites \cup Flushes
    /\ aw = FailsAt(step)
    /\ pc' = "failed"
    /\ ioError' = step
    /\ report' = NoReport
    /\ afterStop' = 0
    /\ startBuckets' = EmptyDict
    /\ page' = 0 /\ last' = EmptyDict /\ total_expected' = JNull
    /\ SetBM(EmptyBM)
    /\ _stop' = FALSE /\ lastSaveSet' = FALSE
    /\ data_array' = <<>> /\ idx' = 0 /\ ki' = 0 /\ aw' = "idle"
    /\ tmp' = Absent
    /\ fresh' = FALSE
    /\ call' = NoCall
    /\ UNCHANGED <<board, lastFile, bucketFiles, returned, startFile, firstFetch,
                   lastFetch, retryOf, applied, calls>>

ReplaceBeforeDump == "open"

\* The step of atomic_write at which os.replace may run.
ReplaceAt == "synced"

\* os.replace(tmp, last_path), and what run() does next.
AwReplaceCheckpoint ==
    /\ pc \in CheckpointWrites
    /\ aw = ReplaceAt
    /\ lastFile' = tmp
    /\ tmp' = Absent
    /\ CASE pc = "stop_ckpt" ->
              /\ FlushFrom("stop_flush", 1, _dirty)
              /\ UNCHANGED lastSaveSet
         [] pc = "done_ckpt" ->
              /\ FlushFrom("done_flush", 1, _dirty)
              /\ UNCHANGED lastSaveSet
         [] pc = "adv_ckpt" ->
              /\ pc' = "advance" /\ aw' = "idle"
              /\ UNCHANGED <<ki, _dirty, lastSaveSet>>
         [] pc = "timed_ckpt" ->
              /\ pc' = "top" /\ aw' = "idle"
              /\ lastSaveSet' = TRUE
              /\ UNCHANGED <<ki, _dirty>>
    /\ call' = IF pc \in {"stop_ckpt", "done_ckpt"} THEN FlushCall("force_save_all") ELSE call
    /\ UNCHANGED <<board, bucketFiles, page, last, total_expected, _stop, data_array, idx,
                   _cache, order, returned, fresh, startFile, firstFetch, lastFetch,
                   retryOf, applied, calls,
                   ioError, report, afterStop,
                   startBuckets>>

\* os.replace(tmp, bucket path), self._dirty[key] = False, and the loop goes on.
AwReplaceBucket ==
    /\ pc \in Flushes
    /\ aw = ReplaceAt
    /\ bucketFiles' = DictSet(bucketFiles, order[ki], tmp)
    /\ tmp' = Absent
    /\ FlushFrom(pc, ki + 1, DictSet(_dirty, order[ki], FALSE))
    /\ UNCHANGED <<board, lastFile, page, last, total_expected, _stop, lastSaveSet,
                   data_array, idx, _cache, order, hist>>

(***************************************************************************)
(* run(), lines 134-207.                                                   *)
(***************************************************************************)
StartPageOne(l) == 1

StartPageBack(l) == IF DictGet(l, "page", 1) <= 1 THEN 1 ELSE DictGet(l, "page", 1) - 1

\* start_page of lines 141-145.
StartPage(l) == IF DictGet(l, "page", 1) <= 0 THEN 1 ELSE DictGet(l, "page", 1)

\* A process starts: module state of lines 25-26, then lines 135-147.
Start ==
    /\ pc \in Dead \cup Ended
    /\ LET l == load_json_if_exists(lastFile, [page |-> 1]) IN
       /\ last' = l
       /\ page' = StartPage(l)
    /\ pc' = "top"
    /\ total_expected' = JNull
    /\ SetBM(EmptyBM)
    /\ _stop' = FALSE /\ lastSaveSet' = FALSE
    /\ data_array' = <<>> /\ idx' = 0 /\ ki' = 0 /\ aw' = "idle"
    /\ fresh' = (fresh /\ pc = "off" /\ lastFile = Absent)
    /\ startFile' = lastFile
    /\ firstFetch' = 0 /\ lastFetch' = 0 /\ retryOf' = 0
    /\ applied' = {}
    /\ call' = NoCall
    /\ ioError' = "none"
    /\ report' = NoReport
    /\ afterStop' = 0
    /\ startBuckets' = bucketFiles
    /\ UNCHANGED <<board, disk, returned, calls>>

\* graceful(), lines 127-129: the handler runs between any two steps.
graceful ==
    /\ pc \in Running
    /\ ~_stop
    /\ _stop' = TRUE
    /\ UNCHANGED <<board, disk, pc, page, last, total_expected, lastSaveSet, data_array,
                   idx, ki, aw, store, hist>>

\* Lines 150-152: the flag is seen; last["page"] = page and the write begins.
ObserveStop ==
    /\ pc = "top"
    /\ _stop
    /\ last' = DictSet(last, "page", page)
    /\ pc' = "stop_ckpt"
    /\ aw' = "start"
    /\ UNCHANGED <<board, disk, page, total_expected, _stop, lastSaveSet, data_array, idx, ki,
                   store, hist>>

\* Lines 150 and 155: the flag is seen clear; the URL of the page is built.
BuildUrl ==
    /\ pc = "top"
    /\ ~_stop
    /\ pc' = "request"
    /\ UNCHANGED <<board, disk, page, last, total_expected, _stop, lastSaveSet, data_array,
                   idx, ki, aw, store, hist>>

\* Lines 156-157: the request for the current page is sent; the signal may
\* have set the flag since line 150 read it.
IssueFetch ==
    /\ pc = "request"
    /\ pc' = "fetching"
    /\ lastFetch' = page
    /\ firstFetch' = IF firstFetch = 0 THEN page ELSE firstFetch
    /\ afterStop' = IF _stop /\ afterStop < MaxAfterStop THEN afterStop + 1 ELSE afterStop
    /\ UNCHANGED <<board, disk, page, last, total_expected, _stop, lastSaveSet, data_array,
                   idx, ki, aw, store, returned, fresh, startFile, retryOf, applied,
                   call, calls,
                   ioError, report, startBuckets>>

FetchFailRetries ==
    /\ pc = "fetching"
    /\ pc' = "request"
    /\ retryOf' = lastFetch
    /\ UNCHANGED <<board, disk, page, last, total_expected, _stop, lastSaveSet, data_array,
                   idx, ki, aw, store, returned, fresh, startFile, firstFetch,
                   lastFetch, applied, call, calls,
                   ioError, report, afterStop,
                   startBuckets>>

FetchFailSkips ==
    /\ pc = "fetching"
    /\ pc' = "top"
    /\ page' = page + 1
    /\ retryOf' = lastFetch
    /\ UNCHANGED <<board, disk, last, total_expected, _stop, lastSaveSet, data_array,
                   idx, ki, aw, store, returned, fresh, startFile, firstFetch,
                   lastFetch, applied, call, calls,
                   ioError, report, afterStop,
                   startBuckets>>

\* Lines 158-160: fetch_page raised; sleep and go round the loop again.
FetchFail ==
    /\ pc = "fetching"
    /\ pc' = "top"
    /\ retryOf' = lastFetch
    /\ UNCHANGED <<board, disk, page, last, total_expected, _stop, lastSaveSet, data_array,
                   idx, ki, aw, store, returned, fresh, startFile, firstFetch,
                   lastFetch, applied, call, calls,
                   ioError, report, afterStop,
                   startBuckets>>

CompletedCheckpointNext(l, p) == DictSet(DictSet(l, "page", p + 1), "complete", TRUE)

\* Lines 172-173: last["page"] = page; last["complete"] = True.
CompletedCheckpoint(l, p) == DictSet(DictSet(l, "page", p), "complete", TRUE)

\* The triples <<uid, bucket key, page>> of the records of a page.
PageTriples(arr, p) ==
    { <<normalize_id(arr[i]), rank_bucket_bounds(ParseRank(StripHistory(arr[i]))), p>> :
        i \in 1..Len(arr) }

\* Lines 162-176: fetch_page returned resp; an empty array ends the crawl.
FetchOk(resp) ==
    /\ pc = "fetching"
    /\ DataIsList(resp)
    /\ retryOf' = 0
    /\ total_expected' = TotalExpected(resp, total_expected)
    /\ IF DataArray(resp) = <<>>
       THEN /\ last' = CompletedCheckpoint(last, page)
            /\ pc' = "done_ckpt"
            /\ aw' = "start"
            /\ UNCHANGED <<data_array, idx, returned>>
       ELSE /\ data_array' = DataArray(resp)
            /\ idx' = 1
            /\ pc' = "apply"
            /\ returned' = returned \cup PageTriples(DataArray(resp), page)
            /\ UNCHANGED <<last, aw>>
    /\ UNCHANGED <<board, disk, page, _stop, lastSaveSet, ki, store, fresh, startFile,
                   firstFetch, lastFetch, applied, call, calls,
                   ioError, report, afterStop,
                   startBuckets>>

\* Lines 162-178 when data_array is not a list: the exception leaves run()
\* before any record is applied, and lines 215-219 end the process.
FetchRaises(resp) ==
    /\ pc = "fetching"
    /\ ~DataIsList(resp)
    /\ pc' = "failed"
    /\ page' = 0 /\ last' = EmptyDict /\ total_expected' = JNull
    /\ SetBM(EmptyBM)
    /\ _stop' = FALSE /\ lastSaveSet' = FALSE
    /\ data_array' = <<>> /\ idx' = 0 /\ ki' = 0 /\ aw' = "idle"
    /\ fresh' = FALSE
    /\ call' = NoCall
    /\ UNCHANGED <<board, disk, returned, startFile, firstFetch, lastFetch, retryOf,
                   applied, calls, ioError>>
    /\ report' = NoReport
    /\ afterStop' = 0
    /\ startBuckets' = EmptyDict

\* Lines 178-183, one element of data_array.
ApplyRecord ==
    /\ pc = "apply"
    /\ idx <= Len(data_array)
    /\ LET ent == data_array[idx]
           uid == normalize_id(ent)
           latest == StripHistory(ent)
       IN  /\ SetBM(update_entry(BM, bucketFiles, uid, latest, page))
           /\ call' = UpdateCall(uid, latest, page)
           /\ applied' = applied \cup {<<uid, rank_bucket_bounds(ParseRank(latest)), page>>}
    /\ idx' = idx + 1
    /\ UNCHANGED <<board, disk, pc, page, last, total_expected, _stop, lastSaveSet, data_array,
                   ki, aw, returned, fresh, startFile, firstFetch, lastFetch, retryOf,
                   calls,
                   ioError, report, afterStop,
                   startBuckets>>

SetNextPageSkips ==
    /\ pc = "apply"
    /\ idx > Len(data_array)
    /\ last' = DictSet(last, "page", page + 2)
    /\ pc' = "adv_ckpt"
    /\ aw' = "start"
    /\ call' = NoCall
    /\ UNCHANGED <<board, disk, page, total_expected, _stop, lastSaveSet, data_array, idx, ki,
                   store, returned, fresh, startFile, firstFetch, lastFetch, retryOf,
                   applied, calls,
                   ioError, report, afterStop,
                   startBuckets>>

\* Lines 185-186: last["page"] = page + 1 and the write begins.
SetNextPage ==
    /\ pc = "apply"
    /\ idx > Len(data_array)
    /\ last' = DictSet(last, "page", page + 1)
    /\ pc' = "adv_ckpt"
    /\ aw' = "start"
    /\ call' = NoCall
    /\ UNCHANGED <<board, disk, page, total_expected, _stop, lastSaveSet, data_array, idx, ki,
                   store, returned, fresh, startFile, firstFetch, lastFetch, retryOf,
                   applied, calls,
                   ioError, report, afterStop,
                   startBuckets>>

\* Lines 188-207: the progress line; page += 1; the timed flush when
\* SAVE_INTERVAL has passed since _last_save (always, while _last_save is
\* still 0); then the sleep.
Advance(due) ==
    /\ pc = "advance"
    /\ (~lastSaveSet => due)
    /\ page' = page + 1
    /\ IF due
       THEN /\ FlushFrom("timed_flush", 1, _dirty)
            /\ call' = FlushCall("save_dirty")
       ELSE /\ pc' = "top"
            /\ UNCHANGED <<ki, aw, _dirty, call>>
    /\ UNCHANGED <<board, disk, last, total_expected, _stop, lastSaveSet, data_array, idx,
                   _cache, order, returned, fresh, startFile, firstFetch, lastFetch,
                   retryOf, applied, calls,
                   ioError>>
    /\ report' = Progress(_cache, total_expected, page)
    /\ UNCHANGED <<afterStop, startBuckets>>

\* The process is killed; memory is lost, the files stay.  (The .tmp file
\* left behind is never read: every write truncates it first.)
Crash ==
    /\ pc \in Running
    /\ pc' = "off"
    /\ page' = 0 /\ last' = EmptyDict /\ total_expected' = JNull
    /\ SetBM(EmptyBM)
    /\ _stop' = FALSE /\ lastSaveSet' = FALSE
    /\ data_array' = <<>> /\ idx' = 0 /\ ki' = 0 /\ aw' = "idle"
    /\ tmp' = Absent
    /\ fresh' = FALSE
    /\ call' = NoCall
    /\ UNCHANGED <<board, lastFile, bucketFiles, returned, startFile, firstFetch,
                   lastFetch, retryOf, applied, calls>>
    /\ ioError' = "none"
    /\ report' = NoReport
    /\ afterStop' = 0
    /\ startBuckets' = EmptyDict

Next ==
    \/ Start
    \/ graceful
    \/ ObserveStop
    \/ BuildUrl
    \/ IssueFetch
    \/ FetchFail
    \/ \E resp \in {BoardPage(board, page)} \cup OddResponses : FetchOk(resp)
    \/ \E resp \in {BoardPage(board, page)} \cup OddResponses : FetchRaises(resp)
    \/ ApplyRecord
    \/ SetNextPage
    \/ \E due \in BOOLEAN : Advance(due)
    \/ AwOpen
    \/ AwDump
    \/ AwSync
    \/ AwSyncFail
    \/ \E step \in IoSteps : AwFail(step)
    \/ AwReplaceCheckpoint
    \/ AwReplaceBucket
    \/ Crash

Spec == Init /\ [][Next]_vars

(***************************************************************************)
(* The crawl over the bucket files of an earlier run.  That run applied    *)
(* the first n pages of the leaderboard to an empty store and flushed; the *)
(* checkpoint file is absent or an older version (the renames of last.json *)
(* were lost, or the file removed), so that pages already in the buckets   *)
(* are fetched and applied again.                                          *)
(***************************************************************************)
RECURSIVE ApplyRecords(_, _, _, _)
ApplyRecords(bm, arr, i, p) ==
    IF i > Len(arr) THEN bm
    ELSE ApplyRecords(update_entry(bm, EmptyDict, normalize_id(arr[i]),
                                   StripHistory(arr[i]), p),
                      arr, i + 1, p)

RECURSIVE ApplyPages(_, _, _, _)
ApplyPages(bm, b, p, n) ==
    IF p > n THEN bm
    ELSE ApplyPages(ApplyRecords(bm, DataArray(BoardPage(b, p)), 1, p), b, p + 1, n)

EarlierFiles(b, n) ==
    LET c == ApplyPages(EmptyBM, b, 1, n).cache
    IN  [key \in DOMAIN c |-> JsonDump(c[key])]

InitRerun ==
    /\ board \in Boards
    /\ \E n \in 0..Len(board) : bucketFiles = EarlierFiles(board, n)
    /\ lastFile \in {Absent} \cup {JsonDump([page |-> k]) : k \in 1..MaxStartPage}
    /\ tmp = Absent
    /\ pc = "off"
    /\ NoProcess
    /\ returned = {}
    /\ fresh = FALSE
    /\ startFile = Absent
    /\ firstFetch = 0 /\ lastFetch = 0 /\ retryOf = 0
    /\ applied = {}
    /\ call = NoCall
    /\ calls = 0
    /\ ioError = "none"
    /\ report = NoReport
    /\ afterStop = 0
    /\ startBuckets = EmptyDict

SpecRerun == InitRerun /\ [][Next]_vars

(***************************************************************************)
(* The crawl of processes that are neither killed nor ended by an          *)
(* exception.  A running process takes its next step, and fetch_page       *)
(* returns or raises within REQUEST_TIMEOUT: weak fairness of the steps of *)
(* the loop.  Signals and the start of a new process are free.             *)
(***************************************************************************)
LoopStep ==
    \/ ObserveStop
    \/ BuildUrl
    \/ IssueFetch
    \/ FetchFail
    \/ \E resp \in {BoardPage(board, page)} \cup OddResponses : FetchOk(resp)
    \/ ApplyRecord
    \/ SetNextPage
    \/ \E due \in BOOLEAN : Advance(due)
    \/ AwOpen
    \/ AwDump
    \/ AwSync
    \/ AwSyncFail
    \/ AwReplaceCheckpoint
    \/ AwReplaceBucket

NextStop == Start \/ graceful \/ LoopStep

SpecStop == Init /\ [][NextStop]_vars /\ WF_vars(LoopStep)

(***************************************************************************)
(* The store driver: BucketManager.update_entry called with arbitrary      *)
(* arguments, on a store whose bucket files are absent or written by an    *)
(* earlier process.                                                        *)
(***************************************************************************)
StoreUids == {"101", "202"}

StoreRanks == {-1, 0, 1, BUCKET_SIZE, BUCKET_SIZE + 1}

StoreRecords ==
    {[rank |-> JInt(r), score |-> JInt(10)] : r \in StoreRanks}
    \cup {[rank |-> JInt(1), score |-> JInt(20)], [score |-> JInt(10)]}

StoredFiles ==
    { EmptyDict,
      <<1, BUCKET_SIZE>> :>
          JsonDump("101" :> [latest |-> [rank |-> JInt(1), score |-> JInt(10)],
                             pages |-> <<2>>]) }

InitStore ==
    /\ board = BoardEmpty
    /\ lastFile = Absent
    /\ bucketFiles \in StoredFiles
    /\ tmp = Absent
    /\ pc = "driver"
    /\ NoProcess
    /\ returned = {}
    /\ fresh = TRUE
    /\ startFile = Absent
    /\ firstFetch = 0 /\ lastFetch = 0 /\ retryOf = 0
    /\ applied = {}
    /\ call = NoCall
    /\ calls = 0
    /\ ioError = "none"
    /\ report = NoReport
    /\ afterStop = 0
    /\ startBuckets = EmptyDict

CallUpdate(uid, latest_obj, p) ==
    /\ pc = "driver"
    /\ calls < MaxCalls
    /\ SetBM(update_entry(BM, bucketFiles, uid, latest_obj, p))
    /\ call' = UpdateCall(uid, latest_obj, p)
    /\ calls' = calls + 1
    /\ UNCHANGED <<board, disk, proc, returned, fresh, startFile, firstFetch,
                   lastFetch, retryOf, applied, ioError, report, afterStop,
                   startBuckets>>

NextStore ==
    \E uid \in StoreUids, latest_obj \in StoreRecords, p \in 1..MaxPage :
        CallUpdate(uid, latest_obj, p)

SpecStore == InitStore /\ [][NextStore]_vars

(***************************************************************************)
(* The progress report: a process that has applied a page and written its  *)
(* checkpoint, with a store of the given bucket sizes and a total as the   *)
(* API reported it (none, 0 or a count), runs lines 188-207.               *)
(***************************************************************************)
ProgressSizes == {<<1>>, <<2>>, <<1, 1>>, <<2, 1>>, <<3>>, <<1000, 1000, 500>>}

ProgressTotals == {JNull, JInt(0), JInt(3), JInt(7), JInt(10000)}

KeyAt(i) == <<(i - 1) * BUCKET_SIZE + 1, i * BUCKET_SIZE>>

\* A bucket of n entries of ranks from start on, each seen on page 1.
Filled(start, n) ==
    [u \in {ToString(start + i) : i \in 0..(n - 1)} |->
        [latest |-> [rank |-> JInt(start)], pages |-> <<1>>]]

StoreOfSizes(sz) ==
    [cache |-> [key \in {KeyAt(i) : i \in 1..Len(sz)} |->
                   Filled(key[1], sz[(key[1] - 1) \div BUCKET_SIZE + 1])],
     dirty |-> [key \in {KeyAt(i) : i \in 1..Len(sz)} |-> FALSE],
     order |-> [i \in 1..Len(sz) |-> KeyAt(i)]]

InitProgress ==
    /\ board = BoardEmpty
    /\ pc = "advance"
    /\ page \in 1..MaxPage
    /\ last = [page |-> page + 1]
    /\ lastFile = JsonDump(last)
    /\ total_expected \in ProgressTotals
    /\ \E sz \in ProgressSizes :
          /\ _cache = StoreOfSizes(sz).cache
          /\ _dirty = StoreOfSizes(sz).dirty
          /\ order = StoreOfSizes(sz).order
    /\ bucketFiles = [key \in DOMAIN _cache |-> JsonDump(_cache[key])]
    /\ tmp = Absent
    /\ _stop = FALSE /\ lastSaveSet = TRUE
    /\ data_array = <<>> /\ idx = 0 /\ ki = 0 /\ aw = "idle"
    /\ returned = {}
    /\ fresh = FALSE
    /\ startFile = Absent
    /\ firstFetch = page /\ lastFetch = page /\ retryOf = 0
    /\ applied = {}
    /\ call = NoCall
    /\ calls = 0
    /\ ioError = "none"
    /\ report = NoReport
    /\ afterStop = 0
    /\ startBuckets = EmptyDict

NextProgress == Advance(FALSE)

SpecProgress == InitProgress /\ [][NextProgress]_vars

(***************************************************************************)
(* Properties.                                                             *)
(***************************************************************************)
\* The entry of uid in the cached bucket key; {} when there is none.
EntryOf(c, key, uid) == DictGet(DictGet(c, key, EmptyDict), uid, EmptyDict)

PagesOf(c, key, uid) == DictGet(EntryOf(c, key, uid), "pages", <<>>)

Count(x, s) == Cardinality({i \in 1..Len(s) : s[i] = x})

NoDuplicates(s) == \A i, j \in 1..Len(s) : s[i] = s[j] => i = j

IsPrefix(s, t) == Len(s) <= Len(t) /\ \A i \in 1..Len(s) : s[i] = t[i]

\* C5: update is idempotent.  In the state an update_entry(uid, latest, page)
\* call leaves, making the same call again changes nothing of the store (no
\* bucket content, no dirty flag, no key), the entry's pages holds the page
\* exactly once and its latest is the record of the call.
UpdateIdempotent ==
    call.op = "update_entry" =>
        /\ update_entry(BM, bucketFiles, call.uid, call.latest, call.page) = BM
        /\ Count(call.page, PagesOf(_cache, call.key, call.uid)) = 1
        /\ EntryOf(_cache, call.key, call.uid).latest = call.latest

\* The same call was made twice in a row: the second found the page present.
UpdateRepeated ==
    /\ call.op = "update_entry"
    /\ calls >= 2
    /\ call.before = BM
    /\ PagesOf(_cache, call.key, call.uid) = <<call.page>>

\* C8: rank bucket assignment.  The bucket an update with rank r goes to is
\* (0,0) when r <= 0, and otherwise (start, end) with
\* start = floor((r-1)/S)*S + 1, end = start + S - 1 and start <= r <= end;
\* for S = 1000: 1 and 1000 go to (1,1000), 1001 to (1001,2000).
RankAssignment ==
    call.op = "update_entry" =>
        LET r == call.rank
            k == call.key
        IN  /\ call.uid \in DOMAIN DictGet(_cache, k, EmptyDict)
            /\ r <= 0 => k = <<0, 0>>
            /\ r > 0 => /\ k[1] = ((r - 1) \div BUCKET_SIZE) * BUCKET_SIZE + 1
                        /\ k[2] = k[1] + BUCKET_SIZE - 1
                        /\ k[1] <= r /\ r <= k[2]
                        /\ (k[1] - 1) % BUCKET_SIZE = 0
            /\ r = 1 => k = <<1, 1000>>
            /\ r = 1000 => k = <<1, 1000>>
            /\ r = 1001 => k = <<1001, 2000>>

\* A record whose rank is the last of its bucket has been stored.
RankAtBucketEnd ==
    /\ call.op = "update_entry"
    /\ call.rank = BUCKET_SIZE
    /\ call.uid \in DOMAIN DictGet(_cache, <<1, BUCKET_SIZE>>, EmptyDict)

\* Every pages list of the cache is duplicate-free.
CachePagesDistinct ==
    \A key \in DOMAIN _cache : \A uid \in DOMAIN _cache[key] :
        NoDuplicates(PagesOf(_cache, key, uid))

\* A step keeps every entry of the cache, and its pages as a prefix of the new.
CachePagesGrow ==
    \A key \in DOMAIN _cache : \A uid \in DOMAIN _cache[key] :
        /\ key \in DOMAIN _cache'
        /\ uid \in DOMAIN _cache'[key]
        /\ IsPrefix(PagesOf(_cache, key, uid), PagesOf(_cache', key, uid))

\* C10: the pages invariant.  After any sequence of update calls on buckets
\* whose stored pages lists are duplicate-free, no pages list holds a page
\* twice, and every update keeps each entry's pages as a prefix of its new
\* pages: first-insertion order is kept and no page is ever removed.
PagesInvariant == []CachePagesDistinct /\ [][CachePagesGrow]_vars

\* An update with a page the entry already held, after the entry had grown.
PagesGrownThenRepeated ==
    /\ call.op = "update_entry"
    /\ Len(PagesOf(call.before.cache, call.key, call.uid)) = 2
    /\ InSeq(call.page, PagesOf(call.before.cache, call.key, call.uid))
    /\ PagesOf(_cache, call.key, call.uid) = PagesOf(call.before.cache, call.key, call.uid)

\* The page a process starting on checkpoint file f has to fetch first.
ResumePage(f) ==
    IF f.f = "json" /\ "page" \in DOMAIN f.v /\ f.v["page"] >= 1 THEN f.v["page"] ELSE 1

\* C2: resume.  The first page a process fetches is the page stored in the
\* checkpoint file it found when that is >= 1, and 1 when the file is
\* absent, unreadable or stores a value <= 0.
ResumeFromCheckpoint == firstFetch # 0 => firstFetch = ResumePage(startFile)

\* A process that found {"page": 7} has fetched page 7.
ResumedAtSeven == startFile = JsonDump([page |-> 7]) /\ firstFetch = 7 /\ pc = "fetching"

\* The bucket files hold exactly what the cache holds, and nothing is dirty.
AllBucketsOnDisk ==
    \A key \in DOMAIN _cache :
        /\ BucketFile(bucketFiles, key) = JsonDump(_cache[key])
        /\ ~_dirty[key]

\* A run that ended on an empty page P has left a checkpoint file with
\* complete = true and page = P, and every bucket it loaded on disk.
CompletedState ==
    pc = "complete" =>
        /\ lastFile = JsonDump(last)
        /\ "complete" \in DOMAIN last /\ last["complete"] = TRUE
        /\ last["page"] = lastFetch
        /\ page = lastFetch
        /\ AllBucketsOnDisk

\* An empty array sends the loop, with page unchanged, to the completion
\* writes; their only way out is the end of the run (or the death of the
\* process); the ended process takes no step: only a new process can start.
CompletedStep ==
    /\ (pc = "fetching" /\ pc' \notin {"fetching", "top", "apply"} \cup Dead) =>
          /\ pc' = "done_ckpt" /\ page' = page
          /\ last'["page"] = page /\ last'["complete"] = TRUE
    /\ pc \in {"done_ckpt", "done_flush"} => pc' \in {"done_ckpt", "done_flush", "complete"} \cup Dead
    /\ pc = "complete" => (Start /\ lastFetch' = 0)

\* C3: completion.  When the fetch of page P returns an empty record array
\* the loop persists a checkpoint with complete = true and page = P (not
\* P + 1), writes every loaded bucket to disk and stops; that run issues no
\* further fetch.
Completion == []CompletedState /\ [][CompletedStep]_vars

\* A run completed after it had loaded and changed buckets.
CompletedWithBuckets == pc = "complete" /\ Len(order) >= 2 /\ applied # {}

\* The step of a fetch that raises leaves the loop running at its top, with
\* page, the in-memory checkpoint, the checkpoint file, the cache, the dirty
\* flags and the bucket files as they were.
FetchFailStep ==
    (pc = "fetching" /\ pc' = "top") =>
        /\ page' = page
        /\ UNCHANGED <<last, lastFile, bucketFiles, _cache, _dirty, order>>

\* The fetch issued after a failure is for the page that failed.
RetrySamePage == (pc = "fetching" /\ retryOf # 0) => (lastFetch = retryOf /\ page = retryOf)

\* C4: a transport failure is non-fatal and commits nothing.  When the fetch
\* of page N raises, the loop goes on, page stays N, the in-memory
\* checkpoint, the checkpoint file, the cache, the dirty flags and the bucket
\* files are unchanged, and the next fetch is again for page N.
TransportFailure == []RetrySamePage /\ [][FetchFailStep]_vars

\* The fetch of page 3 is in flight again after it raised, with changes pending.
RetryInFlight ==
    /\ pc = "fetching" /\ retryOf = 3 /\ lastFetch = 3
    /\ \E key \in DOMAIN _dirty : _dirty[key]

\* A step changes a destination file only by the rename of the write in
\* progress on that file, and then to the complete serialization of the
\* object being written; the rename always does so.
AtomicWriteStep ==
    /\ lastFile' # lastFile =>
          /\ pc \in CheckpointWrites /\ aw = "synced"
          /\ lastFile' = JsonDump(last)
    /\ \A key \in DOMAIN bucketFiles' :
          BucketFile(bucketFiles', key) # BucketFile(bucketFiles, key) =>
              /\ pc \in Flushes /\ aw = "synced" /\ key = order[ki]
              /\ bucketFiles'[key] = JsonDump(_cache[key])
    /\ DOMAIN bucketFiles \subseteq DOMAIN bucketFiles'
    /\ (pc \in CheckpointWrites /\ aw = "synced" /\ aw' # "synced" /\ pc' \notin Dead) =>
          lastFile' = JsonDump(last)
    /\ (pc \in Flushes /\ aw = "synced" /\ aw' # "synced" /\ pc' \notin Dead) =>
          BucketFile(bucketFiles', order[ki]) = JsonDump(_cache[order[ki]])

\* C6: atomic write.  With atomic_write as the steps write-temp-file, sync,
\* rename and a crash possible between any two of them, a destination file
\* holds at every moment the complete content committed before (or is absent)
\* or the complete new content, never a partial one; after a successful
\* write it is the serialization of the object.
AtomicWrite == [][AtomicWriteStep]_vars

\* In the middle of a write: the temporary file is open and truncated while
\* the destination still holds the content committed before.
MidWrite ==
    /\ pc = "adv_ckpt" /\ aw = "open" /\ tmp = Garbage
    /\ lastFile = JsonDump([page |-> 2])
    /\ last["page"] = 3

\* The record <<uid, key, p>> is in the file of its bucket, with p in pages.
OnDisk(t) ==
    LET b == load_json_if_exists(BucketFile(bucketFiles, t[2]), EmptyDict)
    IN  t[1] \in DOMAIN b /\ InSeq(t[3], b[t[1]].pages)

\* The loop leaves for the stop writes only from its top, with the flag set.
StopStep == (pc' = "stop_ckpt" /\ pc # "stop_ckpt") => (pc = "top" /\ _stop)

\* A run ended by the flag applied its last page to the end, and has left the
\* checkpoint file holding the first page it has not processed, a file equal
\* to the cached content for every bucket it loaded, and so every record it
\* applied on disk.
StoppedState ==
    pc = "stopped" =>
        /\ lastFile = JsonDump(last)
        /\ last["page"] = page
        /\ AllBucketsOnDisk
        /\ \A t \in applied : t[3] < page /\ OnDisk(t)
        /\ data_array # <<>> => idx = Len(data_array) + 1

\* C7: graceful stop.  The stop flag is honoured only between iterations,
\* never in the middle of applying a page; when the loop exits on the flag,
\* the checkpoint file holds the first page not yet processed and every
\* bucket the process loaded has a file equal to its cached content, so every
\* record of every page this run processed is on disk.
GracefulStop == []StoppedState /\ [][StopStep]_vars

\* A run ended by the flag after it had applied pages 1 and 2.
StoppedAfterPage ==
    /\ pc = "stopped" /\ page = 3
    /\ \E t \in applied : t[3] = 1
    /\ \E t \in applied : t[3] = 2

\* The store the end-to-end scenario expects.
EndToEndStore ==
    (<<1, 1000>> :> ("101" :> [latest |-> RecA2, pages |-> <<1, 2>>]))
    @@ (<<1001, 2000>> :> ("202" :> [latest |-> RecB, pages |-> <<1>>]))
    @@ (<<0, 0>> :> ("303" :> [latest |-> RecC, pages |-> <<2>>]))

\* C9: the end-to-end scenario.  A first process on an empty store that is
\* served the leaderboard BoardE2E (page 1: A rank 5, B rank 1500; page 2: A
\* changed, C without rank; page 3 empty) and completes holds, in memory and
\* on disk, A in (1,1000) with pages [1,2] and page 2's version, B in
\* (1001,2000) with pages [1], and C in (0,0) with pages [2].
EndToEnd ==
    (board = BoardE2E /\ fresh /\ pc = "complete" /\ page = 3) =>
        /\ _cache = EndToEndStore
        /\ bucketFiles = [key \in DOMAIN EndToEndStore |-> JsonDump(EndToEndStore[key])]

\* The scenario has run to completion.
EndToEndDone == board = BoardE2E /\ fresh /\ pc = "complete" /\ page = 3

\* C1: no data loss across crashes.  Once the loop reaches COMPLETE at page
\* P, every record returned on a non-empty page p < P, in any run, is in the
\* file of the bucket of its rank with p in its pages.
NoDataLoss ==
    pc = "complete" => \A t \in returned : t[3] < page => OnDisk(t)

\* While save_dirty runs the cache is as the call found it, the bucket being
\* written was dirty when the call began and is still, and the file of every
\* bucket that was not dirty is as the call found it.
SaveDirtyRunning ==
    (pc = "timed_flush" /\ call.op = "save_dirty") =>
        /\ _cache = call.before.cache
        /\ call.before.dirty[order[ki]] /\ _dirty[order[ki]]
        /\ \A key \in DOMAIN _cache :
              ~call.before.dirty[key] =>
                  BucketFile(bucketFiles, key) = BucketFile(call.files, key)

\* When save_dirty has returned, no bucket is dirty, the file of every bucket
\* that was dirty is the serialization of its cached content, the other files
\* and the cache are as the call found them.
SaveDirtyReturned ==
    (pc = "timed_ckpt" /\ call.op = "save_dirty") =>
        /\ _cache = call.before.cache
        /\ \A key \in DOMAIN _cache :
              /\ ~_dirty[key]
              /\ call.before.dirty[key] =>
                    BucketFile(bucketFiles, key) = JsonDump(_cache[key])
              /\ ~call.before.dirty[key] =>
                    BucketFile(bucketFiles, key) = BucketFile(call.files, key)

\* C11: flushDirty writes exactly the dirty buckets.  save_dirty writes only
\* buckets marked dirty when it was called; when it has returned each of them
\* has a file equal to its cached content and a cleared flag, the files of
\* the loaded buckets that were not dirty have not been written, and the
\* cache is unchanged.
FlushDirty == SaveDirtyRunning /\ SaveDirtyReturned

\* save_dirty has returned after it found one bucket dirty and one clean.
FlushedOneOfTwo ==
    /\ pc = "timed_ckpt" /\ call.op = "save_dirty"
    /\ \E k1, k2 \in DOMAIN _cache : call.before.dirty[k1] /\ ~call.before.dirty[k2]

\* force_save_all takes the cached keys one by one, in order, from the first
\* to the last, leaving none out (a step that leaves the loop for another
\* reason is the death of the process).
ForceSaveStep ==
    /\ (pc \in {"stop_ckpt", "done_ckpt"} /\ pc' \notin {pc} \cup Dead) =>
          IF order = <<>> THEN pc' \in Ended
          ELSE pc' \in {"stop_flush", "done_flush"} /\ ki' = 1
    /\ (pc \in {"stop_flush", "done_flush"} /\ ki' # ki /\ pc' \notin Dead) =>
          /\ BucketFile(bucketFiles', order[ki]) = JsonDump(_cache[order[ki]])
          /\ IF ki < Len(order) THEN ki' = ki + 1 /\ pc' = pc ELSE pc' \in Ended
    /\ pc \in {"stop_flush", "done_flush"} => (_cache' = _cache \/ pc' \in Dead)

\* When force_save_all has returned, every cached bucket has a file, equal to
\* its cached content, no bucket is dirty and the cache is as the call found it.
ForceSaveReturned ==
    (pc \in Ended /\ call.op = "force_save_all") =>
        /\ _cache = call.before.cache
        /\ \A key \in DOMAIN _cache :
              /\ key \in DOMAIN bucketFiles
              /\ bucketFiles[key] = JsonDump(_cache[key])
              /\ ~_dirty[key]

\* C12: flushAll writes every loaded bucket.  force_save_all writes every
\* bucket of the cache, dirty or not; when it has returned, every cached key
\* has a file equal to the cached content and no bucket is marked dirty.
FlushAll == []ForceSaveReturned /\ [][ForceSaveStep]_vars

\* force_save_all has returned after it found one bucket dirty and one clean.
FlushedAllOfTwo ==
    /\ pc = "stopped" /\ call.op = "force_save_all"
    /\ \E k1, k2 \in DOMAIN _cache : call.before.dirty[k1] /\ ~call.before.dirty[k2]

\* The checkpoint file f holds complete = true.
IsComplete(f) == f.f = "json" /\ DictGet(f.v, "complete", FALSE) = TRUE

\* A complete checkpoint is written only by the completion write, with the
\* page just fetched as its cursor; a complete checkpoint file keeps its
\* mark and its cursor.
CompleteStep ==
    /\ (IsComplete(lastFile') /\ lastFile' # lastFile) =>
          (pc = "done_ckpt" /\ lastFile'.v["page"] = lastFetch)
    /\ IsComplete(lastFile) =>
          (IsComplete(lastFile') /\ lastFile'.v["page"] = lastFile.v["page"])

\* C13: the checkpoint is marked complete once, on an empty page, and
\* COMPLETE is terminal.  Over all runs, restarts on a complete checkpoint
\* included, the checkpoint file gets complete = true only with the page
\* last fetched and observed empty as its cursor, and the cursor of a
\* complete checkpoint is never advanced.
CompleteOnce == [][CompleteStep]_vars

\* The record has no rank: the attribute is missing, null, or not a number.
NoRank(ent) ==
    \/ "rank" \notin DOMAIN ent
    \/ ent["rank"].t \in {"null", "arr"}
    \/ ent["rank"].t = "str" /\ ent["rank"].s \notin DOMAIN DecimalStrings

\* The record has none of the identifier candidates (absent or null).
NoId(ent) == \A i \in 1..Len(IdKeys) : DictGet(ent, IdKeys[i], JNull) = JNull

\* The element ent of the page p is in the cache: under the serialization of
\* the record when it has no identifier, in bucket (0,0) when it has no rank.
AppliedAnomaly(ent, p) ==
    \E key \in DOMAIN _cache : \E uid \in DOMAIN _cache[key] :
        /\ InSeq(p, _cache[key][uid].pages)
        /\ <<uid, key, p>> \in applied
        /\ NoRank(ent) => key = <<0, 0>>
        /\ NoId(ent) => uid = JsonDumpsSorted(ent)
        /\ ~NoId(ent) => uid = normalize_id(ent)

\* While a page is applied every element before idx is in the cache; when
\* the checkpoint of the page is written, and after, all its elements are,
\* and once written the checkpoint file holds page + 1.
AnomaliesState ==
    /\ pc \in {"apply", "adv_ckpt", "advance"} =>
          \A i \in 1..(idx - 1) : AppliedAnomaly(data_array[i], page)
    /\ pc \in {"adv_ckpt", "advance"} =>
          idx = Len(data_array) + 1 /\ last["page"] = page + 1
    /\ pc = "advance" => lastFile = JsonDump(last)

\* Applying a page ends only in the write of the checkpoint for page + 1 (or
\* in the death of the process).
AnomaliesStep ==
    (pc = "apply" /\ pc' \notin {"apply", "off"}) =>
        (pc' = "adv_ckpt" /\ idx > Len(data_array) /\ last'["page"] = page + 1)

\* C14: per-record anomalies never abort the batch.  For every element of a
\* non-empty page, a missing, null or non-numeric rank sends the record to
\* bucket (0,0), and a record with no identifier candidate is stored under
\* its canonical serialization; every record of the page is applied and the
\* checkpoint is advanced to page + 1.
Anomalies == []AnomaliesState /\ [][AnomaliesStep]_vars

\* The page of anomalous records has been applied and its checkpoint written.
AnomalousPageApplied ==
    /\ board = BoardOdd /\ pc = "advance" /\ page = 1
    /\ data_array = <<RecNoId, RecNullRank, RecBadRank>>
    /\ lastFile = JsonDump([page |-> 2])
    /\ DOMAIN DictGet(_cache, <<0, 0>>, EmptyDict) = {"p7", "404"}

\* C15: persistence I/O errors propagate.  When a step of atomic_write has
\* failed (creating the directory, opening or writing the temporary file,
\* forcing it to stable storage, the rename), the process has been ended by
\* the error: it is in no later step of the write nor of the loop.
IoErrorsPropagate == ioError # "none" => pc = "failed"

\* The pages stored for uid in bucket key before the last call: in the cache
\* when the bucket was loaded, in its file otherwise.
PagesBefore(key, uid) ==
    IF key \in DOMAIN call.before.cache
    THEN PagesOf(call.before.cache, key, uid)
    ELSE DictGet(DictGet(load_json_if_exists(BucketFile(bucketFiles, key), EmptyDict),
                         uid, EmptyDict), "pages", <<>>)

\* C16: a rank change leaves a stale entry.  When an identifier that has an
\* entry in bucket K1 is updated with a rank of another bucket K2, K2 holds
\* an entry for it afterwards, whose pages are the pages observed under K2
\* (those K2 held for it and the page of the call, none taken from K1), and
\* the content of K1, the identifier's entry included, is unchanged: the
\* identifier is in both buckets.
RankChange ==
    call.op = "update_entry" =>
        \A k1 \in DOMAIN call.before.cache :
            (k1 # call.key /\ call.uid \in DOMAIN call.before.cache[k1]) =>
                /\ _cache[k1] = call.before.cache[k1]
                /\ call.uid \in DOMAIN _cache[k1]
                /\ call.uid \in DOMAIN _cache[call.key]
                /\ PagesOf(_cache, call.key, call.uid)
                     = MergePages(PagesBefore(call.key, call.uid), call.page)

\* An identifier stored with page 1 in one bucket has been stored with page 2
\* in another.
RankChanged ==
    /\ call.op = "update_entry" /\ call.page = 2
    /\ PagesOf(_cache, call.key, call.uid) = <<2>>
    /\ \E k1 \in DOMAIN _cache :
          k1 # call.key /\ PagesOf(_cache, k1, call.uid) = <<1>>

\* What the loop does with the successful response resp: a non-empty data
\* array of an object, or a non-empty bare array, becomes the records to
\* apply; any other response ends the crawl at the page fetched.
ShapeOutcome(resp) ==
    IF resp.k = "dict" /\ "data" \in DOMAIN resp.d /\ resp.d["data"].t = "arr"
          /\ resp.d["data"].a # <<>>
    THEN pc' = "apply" /\ data_array' = resp.d["data"].a
    ELSE IF resp.k = "list" /\ resp.a # <<>>
    THEN pc' = "apply" /\ data_array' = resp.a
    ELSE /\ pc' = "done_ckpt" /\ page' = page
         /\ last' = CompletedCheckpoint(last, page)

ShapeStep ==
    \A resp \in {BoardPage(board, page)} \cup OddResponses :
        (FetchOk(resp) \/ FetchRaises(resp)) => ShapeOutcome(resp)

\* C17: response shape handling.  A successful response that is an object
\* with a data array yields that array and a bare array yields itself; every
\* other successful response (a body that is not JSON, an object without
\* data or whose data is null, empty or not an array, a value that is not an
\* array) is a page of zero records and completes the crawl at that page.
ResponseShapes == [][ShapeStep]_vars

\* The number of entries of the cache, over all its buckets.
Entries(cache) ==
    Cardinality(UNION {{<<key, uid>> : uid \in DOMAIN cache[key]} : key \in DOMAIN cache})

\* whole.frac is num / den to six decimals: the nearest such number.
SixDecimalsOf(whole, frac, num, den) ==
    LET q == num \div den
        r == num % den
    IN  \/ /\ whole = q /\ frac \in 0..999999
           /\ 2 * (frac * den - r * 1000000) <= den
           /\ 2 * (r * 1000000 - frac * den) <= den
        \/ /\ whole = q + 1 /\ frac = 0
           /\ 2 * (den - r) * 1000000 <= den

\* A progress line reports a percentage when the total is a number other
\* than 0, and then 100 * collected / total, exactly when six decimals can
\* hold it and to the nearest otherwise; it reports the bare count when
\* there is no total or the total is 0.
ProgressState ==
    report.kind # "none" =>
        /\ report.kind = "pct" =>
              /\ report.total.t = "int" /\ report.total.n # 0
              /\ SixDecimalsOf(report.whole, report.frac,
                               100 * report.collected, report.total.n)
              /\ (100 * report.collected) % report.total.n = 0 =>
                    /\ report.whole * report.total.n = 100 * report.collected
                    /\ report.frac = 0
              /\ (report.total.n = 10000 /\ report.collected = 2500) =>
                    (report.whole = 25 /\ report.frac = 0)
        /\ report.kind = "count" => report.collected >= 1

\* The line printed after a page counts every entry of every cached bucket
\* and gives a percentage exactly when the total is known and not 0.
ProgressStep ==
    (pc = "advance" /\ pc' \notin {"advance"} \cup Dead) =>
        /\ report'.collected = Entries(_cache)
        /\ report'.page = page
        /\ report'.kind = IF total_expected \in {JNull, JInt(0)} THEN "count" ELSE "pct"
        /\ report'.kind = "pct" => report'.total = total_expected

\* C18: progress math.  After each non-empty page, when a total is known the
\* reported percentage is 100 * collected / total, collected being the sum
\* of the numbers of entries of all cached buckets (total 10000 and
\* collected 2500 give 25); with no total, or total 0, the line reports the
\* collected count alone.
ProgressMath == []ProgressState /\ [][ProgressStep]_vars

\* 2500 entries in three buckets, of 10000 expected: 25.000000%.
QuarterCollected ==
    /\ report.kind = "pct" /\ report.total = JInt(10000) /\ report.collected = 2500
    /\ report.whole = 25 /\ report.frac = 0
    /\ Len(order) = 3

\* C19: the crash window is bounded to the page in flight.  Whenever the
\* checkpoint file holds the page N, every record returned on a non-empty
\* page p < N - 1, in any run, is in the file of its bucket with p in its
\* pages: the bucket writes missing from disk are those of one page at most.
CrashWindow ==
    (lastFile.f = "json" /\ "page" \in DOMAIN lastFile.v) =>
        \A t \in returned : t[3] < lastFile.v["page"] - 1 => OnDisk(t)

\* At most one request is sent with the flag set.
AfterStopBound == afterStop <= 1

\* The flag of a running process stays set, and the loop leaves for the stop
\* writes only from its top: the fetch in flight and the processing of its
\* page are not cut short.
StopFlagStep ==
    /\ (_stop /\ ~_stop') => (pc \in Ended \/ pc' \in Dead)
    /\ (pc' = "stop_ckpt" /\ pc # "stop_ckpt") => (pc = "top" /\ _stop)
    /\ (_stop /\ pc \in {"fetching", "apply", "adv_ckpt", "advance", "timed_flush", "timed_ckpt"}) =>
          pc' \notin {"stop_ckpt", "stop_flush", "stopped"}

AsWritten(files, t) ==
    LET arr == DataArray(BoardPage(board, t[3]))
        b == load_json_if_exists(BucketFile(files, t[2]), EmptyDict)
    IN  \A i \in 1..Len(arr) :
            (normalize_id(arr[i]) = t[1]
               /\ rank_bucket_bounds(ParseRank(StripHistory(arr[i]))) = t[2]) =>
                /\ t[1] \in DOMAIN b
                /\ b[t[1]].latest = StripHistory(arr[i])
                /\ InSeq(t[3], b[t[1]].pages)

\* C21: safe re-processing after a restart.  When every record a process has
\* applied was already in the bucket files it found, as an earlier run wrote
\* it from the same response, the bucket files are what the process found,
\* at every moment and after every flush: no page number and no identifier
\* is added twice, no content changes.
SafeReprocessing ==
    (pc \in Running \cup Ended /\ \A t \in applied : AsWritten(startBuckets, t)) =>
        bucketFiles = startBuckets

\* A process has applied again pages an earlier run had written, and flushed.
ReprocessedAndFlushed ==
    /\ pc = "complete" /\ call.op = "force_save_all"
    /\ Cardinality(applied) >= 2
    /\ \A t \in applied : AsWritten(startBuckets, t)
    /\ bucketFiles = startBuckets

\* While a fetch issued after this run applied a page is in flight, the
\* checkpoint file holds the page being fetched.
FetchAtCursor ==
    (pc = "fetching" /\ applied # {}) =>
        (lastFile.f = "json" /\ lastFile.v["page"] = lastFetch /\ lastFetch = page)

\* The cursor of the checkpoint file (the page a process starting on it
\* fetches first) changes only by the write that follows the last record of
\* a non-empty page P = page, all of whose records are in the cache with P
\* in their pages, and then from P to P + 1; no request is sent meanwhile.
CursorStep ==
    ResumePage(lastFile') # ResumePage(lastFile) =>
        /\ pc = "adv_ckpt" /\ pc' = "advance"
        /\ ResumePage(lastFile) = page
        /\ ResumePage(lastFile') = page + 1
        /\ data_array # <<>> /\ idx = Len(data_array) + 1
        /\ \A i \in 1..Len(data_array) :
              LET latest == StripHistory(data_array[i])
              IN  InSeq(page, PagesOf(_cache, rank_bucket_bounds(ParseRank(latest)),
                                      normalize_id(data_array[i])))
        /\ lastFetch = page

\* C22: cursor and fetch stay in step.  Within a run, every fetch issued
\* after the first non-empty page was applied is for the page the checkpoint
\* file holds; the persisted cursor advances by exactly one, to P + 1, only
\* when all records of the non-empty page P are in the cache, and before the
\* next fetch is issued.
CursorInStep == []FetchAtCursor /\ [][CursorStep]_vars

\* The fetch of page 3 is in flight in a run that applied pages 1 and 2.
FetchingThird ==
    /\ pc = "fetching" /\ lastFetch = 3
    /\ lastFile = JsonDump([page |-> 3])
    /\ \E t \in applied : t[3] = 1

(***************************************************************************)
(* Identifiers.  SpecIds applies the loop body of lines 178-183 to a page  *)
(* of two observations of one record: the first with any combination of    *)
(* the seven candidate attributes absent, null or set (to 0, to the empty  *)
(* string, to a number or to a string), with or without a history; the     *)
(* second differing from the first in its history only.                    *)
(***************************************************************************)
IdValues ==
    <<JInt(0), JStr(""), JInt(3), JStr("player_id"), JInt(5), JStr("playerId"), JStr("7")>>

IdChoices == {"absent", "null", "set"}

Histories == <<JArr(<<JInt(1)>>), JArr(<<JInt(1), JInt(2)>>)>>

IdRecord(choice, withHistory) ==
    LET keys == {IdKeys[i] : i \in {j \in 1..Len(IdKeys) : choice[j] # "absent"}}
        ids == [k \in keys |->
                   LET i == CHOOSE j \in 1..Len(IdKeys) : IdKeys[j] = k
                   IN  IF choice[i] = "null" THEN JNull ELSE IdValues[i]]
        named == DictSet(ids, "name", JStr("n"))
    IN  IF withHistory THEN DictSet(named, "history", Histories[1]) ELSE named

IdRecords ==
    {IdRecord(choice, h) : choice \in [1..Len(IdKeys) -> IdChoices], h \in BOOLEAN}

InitIds ==
    /\ \E ent \in IdRecords :
          /\ data_array = <<ent, DictSet(ent, "history", Histories[2])>>
          /\ board = <<RespList(data_array)>>
    /\ pc = "apply"
    /\ page = 1
    /\ last = [page |-> 1]
    /\ lastFile = Absent
    /\ total_expected = JNull
    /\ _cache = EmptyDict /\ _dirty = EmptyDict /\ order = <<>>
    /\ bucketFiles = EmptyDict
    /\ tmp = Absent
    /\ _stop = FALSE /\ lastSaveSet = TRUE
    /\ idx = 1 /\ ki = 0 /\ aw = "idle"
    /\ returned = PageTriples(data_array, 1)
    /\ fresh = TRUE
    /\ startFile = Absent
    /\ firstFetch = 1 /\ lastFetch = 1 /\ retryOf = 0
    /\ applied = {}
    /\ call = NoCall
    /\ calls = 0
    /\ ioError = "none"
    /\ report = NoReport
    /\ afterStop = 0
    /\ startBuckets = EmptyDict

NextIds == ApplyRecord

SpecIds == InitIds /\ [][NextIds]_vars

\* The candidate attribute k qualifies: present with a non-null value.
Qualifies(ent, k) == k \in DOMAIN ent /\ ent[k].t # "null"

\* uid is the identifier the rule gives to ent.
IdentifierOf(ent, uid) ==
    \/ \E i \in 1..Len(IdKeys) :
          /\ Qualifies(ent, IdKeys[i])
          /\ \A j \in 1..(i - 1) : ~Qualifies(ent, IdKeys[j])
          /\ uid = (IF ent[IdKeys[i]].t = "int" THEN ToString(ent[IdKeys[i]].n)
                    ELSE ent[IdKeys[i]].s)
    \/ /\ \A i \in 1..Len(IdKeys) : ~Qualifies(ent, IdKeys[i])
       /\ uid = JsonDumpsSorted(ent)

\* C23: identifier derivation.  The identifier under which a record is
\* applied is the string form of its first candidate attribute, in the
\* order of IdKeys, that is present and not null; a candidate that is
\* present but null is skipped; with no such candidate it is the key-sorted
\* serialization of the record.
IdentifierDerivation ==
    call.op = "update_entry" => IdentifierOf(data_array[idx - 1], call.uid)

\* A record whose id is null and whose profile_id is the empty string was
\* applied under the empty string.
NullCandidateSkipped ==
    /\ call.op = "update_entry" /\ idx = 2
    /\ "id" \in DOMAIN data_array[1] /\ data_array[1]["id"] = JNull
    /\ "profile_id" \in DOMAIN data_array[1] /\ data_array[1]["profile_id"] = JStr("")
    /\ call.uid = ""

\* No entry of the cache has a latest record with a history attribute.
NoStoredHistory ==
    \A key \in DOMAIN _cache : \A uid \in DOMAIN _cache[key] :
        "history" \notin DOMAIN _cache[key][uid].latest

\* C24: volatile fields are stripped before the identifier is computed and
\* before storage.  No stored latest record has a history attribute, and two
\* observations of a record that differ only in history are applied under
\* the same identifier, also when it comes from the serialization fallback.
HistoryFreeIdentifier ==
    /\ NoStoredHistory
    /\ \A s, t \in applied : s[1] = t[1]

(***************************************************************************)
(* The crawl of a finite leaderboard with no signal and no kill: pages     *)
(* 1..Len(board) hold records and every later page is empty.  A request    *)
(* may fail any number of times but, strong fairness, not for ever; every  *)
(* other step of the loop is taken when it can be.  Persistence errors may *)
(* still end the process.                                                  *)
(***************************************************************************)
FiniteBoards == {BoardE2E, BoardMoved, BoardEmpty}

InitFinite ==
    /\ Init
    /\ board \in FiniteBoards
    /\ ResumePage(lastFile) <= Len(board) + 1

FetchReturns == \E resp \in {BoardPage(board, page)} : FetchOk(resp)

LoopFinite ==
    \/ BuildUrl
    \/ IssueFetch
    \/ FetchFail
    \/ FetchReturns
    \/ ApplyRecord
    \/ SetNextPage
    \/ \E due \in BOOLEAN : Advance(due)
    \/ AwOpen
    \/ AwDump
    \/ AwSync
    \/ AwSyncFail
    \/ \E step \in IoSteps : AwFail(step)
    \/ AwReplaceCheckpoint
    \/ AwReplaceBucket

NextFinite == Start \/ LoopFinite

SpecFinite ==
    InitFinite /\ [][NextFinite]_vars /\ WF_vars(LoopFinite) /\ SF_vars(FetchReturns)

\* The process completed and the checkpoint file holds the first empty page.
CompletedAtEnd ==
    /\ pc = "complete"
    /\ lastFile = JsonDump([page |-> Len(board) + 1, complete |-> TRUE])

\* On a finite leaderboard a process that is not stopped, not killed and not
\* ended by a persistence error completes at the first empty page.
FiniteTermination ==
    (pc \in Running) ~> (CompletedAtEnd \/ (pc = "failed" /\ ioError # "none"))

\* C25: termination on a finite leaderboard.  Under the hypotheses of
\* SpecFinite the loop reaches COMPLETE with the checkpoint file holding the
\* first empty page (FiniteTermination); and, in every run, the loop is left
\* only by completion, by a stop, or by a persistence error that propagates:
\* a process that an exception ended was ended by a failed step of
\* atomic_write.
OnlyListedExits == pc = "failed" => ioError # "none"

\* The identifiers of the bucket file of key.
IdsOfFile(files, key) == DOMAIN load_json_if_exists(BucketFile(files, key), EmptyDict)

\* The step stays within one process: none starts and none ends by a kill or
\* an exception.
SameProcess == pc \notin Dead /\ pc' \notin Dead /\ ~(pc \in Ended /\ pc' = "top")

NeverDeletedStep ==
    /\ \A key \in DOMAIN bucketFiles :
          /\ key \in DOMAIN bucketFiles'
          /\ IdsOfFile(bucketFiles, key) \subseteq IdsOfFile(bucketFiles', key)
    /\ SameProcess =>
          \A key \in DOMAIN _cache :
              /\ key \in DOMAIN _cache'
              /\ DOMAIN _cache[key] \subseteq DOMAIN _cache'[key]

\* C26: entries are never deleted.  Through the updates and the flushes of a
\* process the identifiers of each bucket only grow, in the cache and in its
\* file: an identifier of a bucket file is in every later version of the
\* file, and a bucket once loaded stays in the cache while the process
\* lives.
EntriesNeverDeleted == [][NeverDeletedStep]_vars

\* A bucket file an earlier run left has been rewritten with one more entry.
BucketFileGrown ==
    \E key \in DOMAIN startBuckets :
        /\ IdsOfFile(startBuckets, key) # {}
        /\ IdsOfFile(startBuckets, key) # IdsOfFile(bucketFiles, key)
        /\ key \in DOMAIN _cache /\ DOMAIN _cache[key] = IdsOfFile(bucketFiles, key)

\* The bucket of key as its file holds it, an absent file being the empty
\* bucket.
BucketOnDisk(files, key) == load_json_if_exists(BucketFile(files, key), EmptyDict)

\* C27: write-back consistency.  In every state of a running process each
\* cached bucket that is not marked dirty has the content of its file, an
\* absent file counting as the empty bucket.
WriteBackConsistency ==
    pc \notin Dead =>
        \A key \in DOMAIN _cache :
            ~DictGet(_dirty, key, FALSE) => _cache[key] = BucketOnDisk(bucketFiles, key)

\* One cached bucket holds entries and is clean, another is dirty and differs
\* from its file.
CleanAndDirtyBuckets ==
    /\ pc \in Running
    /\ \E key \in DOMAIN _cache : ~_dirty[key] /\ _cache[key] # EmptyDict
    /\ \E key \in DOMAIN _cache : _dirty[key] /\ _cache[key] # BucketOnDisk(bucketFiles, key)

\* The checkpoint file holds a page number.
HoldsPage(f) == f.f = "json" /\ "page" \in DOMAIN f.v

CursorMonotoneStep ==
    HoldsPage(lastFile) => (HoldsPage(lastFile') /\ lastFile'.v["page"] >= lastFile.v["page"])

\* C28: monotone cursor.  The page number held in the checkpoint file never
\* decreases, over loop iterations, transport failures, timed flushes,
\* graceful stops, completions, kills and restarts, from a checkpoint file
\* that is absent or holds an integer page.
MonotoneCursor == [][CursorMonotoneStep]_vars

\* A process that started on a checkpoint file holding a page has moved the
\* file to a later page.
CursorMoved ==
    /\ pc \in Running
    /\ HoldsPage(startFile) /\ HoldsPage(lastFile)
    /\ lastFile.v["page"] > startFile.v["page"]
    /\ startFile.v["page"] >= 1

\* The step is a call of update_entry: the loop body applied one record.
UpdateStep == pc = "apply" /\ pc' = "apply" /\ idx' = idx + 1

FrameStep ==
    UpdateStep =>
        LET ent == data_array[idx]
            uid == normalize_id(ent)
            key == rank_bucket_bounds(ParseRank(StripHistory(ent)))
            old == IF key \in DOMAIN _cache THEN _cache[key]
                   ELSE BucketOnDisk(bucketFiles, key)
        IN  /\ DOMAIN _cache' = DOMAIN _cache \cup {key}
            /\ DOMAIN _dirty' = DOMAIN _dirty \cup {key}
            /\ \A k \in DOMAIN _cache \ {key} :
                  _cache'[k] = _cache[k] /\ _dirty'[k] = _dirty[k]
            /\ DOMAIN _cache'[key] = DOMAIN old \cup {uid}
            /\ \A u \in DOMAIN old \ {uid} : _cache'[key][u] = old[u]
            /\ UNCHANGED <<lastFile, bucketFiles, tmp, last, page>>

\* C29: frame of update.  A call of update_entry changes only the entry of
\* its identifier in the bucket of the record's rank and that bucket's
\* dirty flag, loading the bucket when it was not cached; the other entries
\* of the bucket, the other cached buckets and their flags, the checkpoint
\* and all files are unchanged.
FrameOfUpdate == [][FrameStep]_vars

\* An update was applied to a bucket holding another entry while another
\* cached bucket, with entries, was clean.
UpdatedBesideCleanBucket ==
    /\ pc = "apply" /\ call.op = "update_entry"
    /\ Cardinality(DOMAIN _cache[call.key]) >= 2
    /\ \E k \in DOMAIN _cache \ {call.key} : ~_dirty[k] /\ _cache[k] # EmptyDict

=============================================================================
